---- MODULE Spec2Model ----
(***************************************************************************)
(* pm2-prometheus-exporter: the cluster broadcast / reply protocol of      *)
(* src/src/pm2-prometheus-exporter.ts, seen from one process (the process  *)
(* whose environment is isClusterMode / pm_id), its siblings and the pm2   *)
(* message channel between them.                                           *)
(***************************************************************************)
EXTENDS Integers, Sequences, FiniteSets, TLC

\* ------------------------------------------------------------------ bounds
MaxProc == 1          \* pm2 process ids are 0..MaxProc
MaxCalls == 2         \* number of getAggregateMetrics calls issued
MaxNow == 6           \* the wall clock runs from 0 to MaxNow
MaxPeriod == 3        \* timeSyncRun is called with periods 1..MaxPeriod

Procs == 0 .. MaxProc
CallIds == 1 .. MaxCalls

\* --------------------------------------------------------------- constants
Undefined == -1                    \* process.env.pm_id === undefined
MetricsGet == "metrics-get"        \* the topic of getAggregateMetrics
OtherTopic == "other"              \* a topic of some other user of the channel
AppName == "app"                   \* process.env.name
IdentityError == "PM2 process id not found"
ReplyToError == "ReplyTo is undefined"
ListError == "pm2.list error"
TimeoutReason == "timeout"

VARIABLES
    isClusterMode,   \* process.env.exec_mode === 'cluster_mode'
    pm_id,           \* process.env.pm_id of this process (Undefined when not set)
    alive,           \* FALSE once an unhandled rejection has ended the process
    listeners,       \* the 'message' listeners of this process, in order
    channel,         \* packets handed to pm2.sendDataToProcessId, not yet delivered
    pc,              \* per call: position of the executor of awaitAllProcMessagesReplies
    procList,        \* per call: pm_ids of the filtered list (local procList)
    procLength,      \* per call: local procLength
    responses,       \* per call: local responses
    timeoutHandle,   \* per call: state of the deadline timer
    promise,         \* per call: the promise awaitAllProcMessagesReplies returned
    result,          \* per call: the promise getAggregateMetrics returned
    thrown,          \* per call: error the async executor ended with ("" if none)
    attempts,        \* history, per call: pm_ids pm2.sendDataToProcessId was called with
    expiredBefore,   \* history, per call: calls that had timed out when it was issued
    replyThrown,     \* history: sendProcReply has thrown ReplyToError in this process
    now,             \* Date.now()
    syncTimer        \* the timer timeSyncRun created

vars == <<isClusterMode, pm_id, alive, listeners, channel, pc, procList,
          procLength, responses, timeoutHandle, promise, result, thrown,
          attempts, expiredBefore, replyThrown, now, syncTimer>>

syncVars == <<now, syncTimer>>

callVars == <<pc, procList, procLength, responses, timeoutHandle, promise,
              result, thrown, attempts, expiredBefore>>

\* ------------------------------------------------------------ ProcessPacket
\* isReply and replyTo are optional fields: a packet is a record whose
\* domain may lack them.
Has(packet, field) == field \in DOMAIN packet

\* !response.isReply : an absent isReply is falsy
IsReply(packet) == Has(packet, "isReply") /\ packet.isReply

\* the metrics snapshot process p computes when it answers the request of call ask
Snapshot(p, ask) == <<p, ask>>

\* the packet awaitAllProcMessagesReplies hands to broadcastToAll
RequestPacket(currentProcId, topic) ==
    [id |-> currentProcId, replyTo |-> currentProcId,
     originalProcId |-> currentProcId, topic |-> topic,
     data |-> <<>>, isReply |-> FALSE]

\* getCurrentProcId: parseInt(process.env.pm_id), throws when it is not set
getCurrentProcIdThrows(env_pm_id) == env_pm_id = Undefined

\* --------------------------------------------------------------- promises
Pending == [state |-> "pending", value |-> <<>>, reason |-> ""]
NoPromise == [state |-> "none", value |-> <<>>, reason |-> ""]

\* resolve / reject settle a promise once; later calls are ignored
Settle(p, state, value, reason) ==
    IF p.state = "pending"
    THEN [state |-> state, value |-> value, reason |-> reason]
    ELSE p

\* ----------------------------------------------------------- small helpers
\* the entries of the 'message' listener list of this process
Responder == [fn |-> "handleProcessMessage", call |-> 0]
Handler(c) == [fn |-> "handler", call |-> c]

\* Registrations with handleProcessMessage added twice
RegistrationsTwice == <<Responder, Responder>>

\* the 'message' listeners the module registers when it is loaded in cluster
\* mode: removeListener of the new function removes nothing, on adds it once
Registrations == <<Responder>>

Range(s) == {s[i] : i \in DOMAIN s}

RECURSIVE Map(_, _)
\* procMetrics.map((o) => o.data)
Map(s, field) ==
    IF s = <<>> THEN <<>> ELSE <<Head(s)[field]>> \o Map(Tail(s), field)


\* ------------------------------------------------------------- getProcList
\* what pm2.list can say about one process
Descriptions(p) ==
    { [pm_id |-> p, name |-> AppName, pm2_env |-> [status |-> "online"]],
      [pm_id |-> p, name |-> AppName, pm2_env |-> [status |-> "stopped"]],
      [pm_id |-> p, name |-> "other-app", pm2_env |-> [status |-> "online"]],
      [pm_id |-> p, name |-> AppName] }

\* the lists pm2.list can call back with: one description per process id
Lists == {l \in [1 .. MaxProc + 1 -> UNION {Descriptions(p) : p \in Procs}] :
             \A i \in DOMAIN l : l[i].pm_id = i - 1}

SameNameOnline(o) ==
    /\ o.name = AppName
    /\ Has(o, "pm2_env")
    /\ o.pm2_env.status = "online"

getProcList(list) == SelectSeq(list, SameNameOnline)

\* ---------------------------------------------------------- broadcastToAll
\* if (proc.pm_id) : the truthiness of a number
Truthy(n) == n # 0

\* the process ids the forEach of broadcastToAll calls sendDataToProcessId with
SendTargets(list) == {o.pm_id : o \in {x \in Range(list) : Truthy(x.pm_id)}}

\* BroadcastCount counting the sends that were made
BroadcastCountSent(list) == Cardinality(SendTargets(list))

\* what broadcastToAll resolves with: procList.length
BroadcastCount(list) == Len(list)

\* ------------------------------------------------------ getAggregateMetrics
Aggregate(procMetrics) ==
    [state |-> "fulfilled", value |-> Map(procMetrics, "data"), reason |-> "",
     registry |-> "aggregate"]

LocalRegister ==
    [state |-> "fulfilled", value |-> <<>>, reason |-> "",
     registry |-> "client.register"]

PendingResult == [state |-> "pending", value |-> <<>>, reason |-> "", registry |-> ""]
NoResult == [state |-> "none", value |-> <<>>, reason |-> "", registry |-> ""]

\* the process ends: its listeners, timers and promises are gone, and the
\* model stops following the channel
Exit ==
    /\ alive' = FALSE
    /\ listeners' = <<>>
    /\ channel' = {}
    /\ pc' = [c \in CallIds |-> "idle"]
    /\ procList' = [c \in CallIds |-> <<>>]
    /\ procLength' = [c \in CallIds |-> 0]
    /\ responses' = [c \in CallIds |-> <<>>]
    /\ timeoutHandle' = [c \in CallIds |-> "unset"]
    /\ promise' = [c \in CallIds |-> NoPromise]
    /\ result' = [c \in CallIds |-> NoResult]
    /\ thrown' = [c \in CallIds |-> ""]
    /\ attempts' = [c \in CallIds |-> {}]
    /\ expiredBefore' = [c \in CallIds |-> {}]
    /\ UNCHANGED <<isClusterMode, pm_id>>

\* a rejection no handler is attached to: the runtime either only reports it
\* (the process goes on as the action 'survive' says) or ends the process,
\* depending on its version and flags
UnhandledRejection(survive) ==
    \/ survive /\ UNCHANGED alive
    \/ Exit

\* the continuation of getAggregateMetrics after its await
Continue(res, p) ==
    IF res.state # "pending" THEN res
    ELSE IF p.state = "fulfilled" THEN Aggregate(p.value)
    ELSE IF p.state = "rejected"
         THEN [state |-> "rejected", value |-> <<>>, reason |-> p.reason,
               registry |-> ""]
    ELSE res

\* a call of getAggregateMetrics in single-process mode
ReturnLocal(c) ==
    /\ result' = [result EXCEPT ![c] = LocalRegister]
    /\ pc' = [pc EXCEPT ![c] = "returned"]
    /\ UNCHANGED <<isClusterMode, pm_id, alive, listeners, channel, procList,
                   procLength, responses, timeoutHandle, promise, thrown, attempts>>

\* getCurrentProcId throws in the async executor: nobody rejects the promise
ThrowIdentity(c) ==
    /\ promise' = [promise EXCEPT ![c] = Pending]
    /\ result' = [result EXCEPT ![c] = PendingResult]
    /\ pc' = [pc EXCEPT ![c] = "threw"]
    /\ thrown' = [thrown EXCEPT ![c] = IdentityError]
    /\ UNCHANGED <<isClusterMode, pm_id, listeners, channel, procList,
                   procLength, responses, timeoutHandle, attempts>>

\* broadcastToAll -> getProcList -> pm2.list(...): the executor waits
StartList(c) ==
    /\ promise' = [promise EXCEPT ![c] = Pending]
    /\ result' = [result EXCEPT ![c] = PendingResult]
    /\ pc' = [pc EXCEPT ![c] = "list"]
    /\ UNCHANGED <<isClusterMode, pm_id, alive, listeners, channel, procList,
                   procLength, responses, timeoutHandle, thrown, attempts>>

\* getAggregateMetrics without the test of isClusterMode
getAggregateMetricsNoModeTest(c) ==
    /\ alive
    /\ pc[c] = "idle"
    /\ \A d \in CallIds : d < c => pc[d] # "idle"
    /\ IF getCurrentProcIdThrows(pm_id)
       THEN UnhandledRejection(ThrowIdentity(c) /\ UNCHANGED expiredBefore)
       ELSE /\ StartList(c)
            /\ expiredBefore' = [expiredBefore EXCEPT
                  ![c] = {d \in CallIds : promise[d].reason = TimeoutReason}]

\* a call of getAggregateMetrics, up to the first point where it waits
getAggregateMetrics(c) ==
    /\ alive
    /\ pc[c] = "idle"
    /\ \A d \in CallIds : d < c => pc[d] # "idle"
    /\ IF ~isClusterMode
       THEN ReturnLocal(c) /\ UNCHANGED expiredBefore
       ELSE IF getCurrentProcIdThrows(pm_id)
       THEN UnhandledRejection(ThrowIdentity(c) /\ UNCHANGED expiredBefore)
       ELSE /\ StartList(c)
            /\ expiredBefore' = [expiredBefore EXCEPT
                  ![c] = {d \in CallIds : promise[d].reason = TimeoutReason}]

\* getProcList rejects, broadcastToAll rejects, the executor throws
ThrowList(c) ==
    /\ pc' = [pc EXCEPT ![c] = "threw"]
    /\ thrown' = [thrown EXCEPT ![c] = ListError]
    /\ UNCHANGED <<isClusterMode, pm_id, listeners, channel, procList, procLength,
                   responses, timeoutHandle, promise, result, attempts,
                   expiredBefore>>

\* broadcastToAll sends and returns, then the executor arms the timer and
\* registers its handler
Register(c, list) ==
    /\ procList' = [procList EXCEPT ![c] = getProcList(list)]
    /\ attempts' = [attempts EXCEPT ![c] = SendTargets(procList'[c])]
    /\ channel' = channel \cup
          {[to |-> p, ask |-> c, packet |-> RequestPacket(pm_id, MetricsGet)] :
              p \in attempts'[c]}
    /\ procLength' = [procLength EXCEPT ![c] = BroadcastCount(procList'[c])]
    /\ timeoutHandle' = [timeoutHandle EXCEPT ![c] = "armed"]
    /\ listeners' = Append(listeners, Handler(c))
    /\ pc' = [pc EXCEPT ![c] = "done"]
    /\ UNCHANGED <<isClusterMode, pm_id, alive, responses, promise, result,
                   thrown, expiredBefore>>

\* the callback of pm2.list, and the rest of the executor of
\* awaitAllProcMessagesReplies, which runs in the same turn of the event loop
ListReturn(c, err, list) ==
    /\ alive
    /\ pc[c] = "list"
    /\ IF err
       THEN UnhandledRejection(ThrowList(c))
       ELSE Register(c, list)

\* Timeout with the timer callback resolving with what has been collected
TimeoutResolvesPartial(c) ==
    /\ alive
    /\ timeoutHandle[c] = "armed"
    /\ timeoutHandle' = [timeoutHandle EXCEPT ![c] = "fired"]
    /\ promise' = [promise EXCEPT ![c] = Settle(@, "fulfilled", responses[c], "")]
    /\ result' = [result EXCEPT ![c] = Continue(@, promise'[c])]
    /\ UNCHANGED <<isClusterMode, pm_id, alive, listeners, channel, pc, procList,
                   procLength, responses, thrown, attempts, expiredBefore>>

\* the deadline timer of call c fires: () => reject('timeout')
Timeout(c) ==
    /\ alive
    /\ timeoutHandle[c] = "armed"
    /\ timeoutHandle' = [timeoutHandle EXCEPT ![c] = "fired"]
    /\ promise' = [promise EXCEPT ![c] = Settle(@, "rejected", <<>>, TimeoutReason)]
    /\ result' = [result EXCEPT ![c] = Continue(@, promise'[c])]
    /\ UNCHANGED <<isClusterMode, pm_id, alive, listeners, channel, pc, procList,
                   procLength, responses, thrown, attempts, expiredBefore>>

\* ------------------------------------------------------------ the listeners
\* HandlerIgnores without the test of isReply
HandlerIgnoresTopicOnly(topic, response) == response.topic # topic

\* the first line of handler: packets it returns on without counting them
HandlerIgnores(topic, response) == ~IsReply(response) \/ response.topic # topic

Listening(c) == Handler(c) \in Range(listeners)

\* handleProcessMessage answers this packet
ResponderAnswers(packet) == packet.topic = MetricsGet /\ ~IsReply(packet)

\* ReturnPacket that leaves the id of the request in place
ReturnPacketKeepsId(originalPacket, data, currentProcId) ==
    [f \in DOMAIN originalPacket \cup {"data", "isReply", "originalProcId"} |->
        CASE f = "data" -> data
          [] f = "isReply" -> TRUE
          [] f = "originalProcId" -> currentProcId
          [] OTHER -> originalPacket[f]]

\* sendProcReply: { ...originalPacket, data, isReply: true, id, originalProcId }
ReturnPacket(originalPacket, data, currentProcId) ==
    [f \in DOMAIN originalPacket \cup {"data", "isReply", "id", "originalProcId"} |->
        CASE f = "data" -> data
          [] f = "isReply" -> TRUE
          [] f = "id" -> currentProcId
          [] f = "originalProcId" -> currentProcId
          [] OTHER -> originalPacket[f]]

\* Replies sending to the replying process itself
RepliesToCurrent(e, p, registered) ==
    IF ResponderAnswers(e.packet) /\ Has(e.packet, "replyTo")
    THEN {[to |-> p, ask |-> e.ask, copy |-> k,
           packet |-> ReturnPacket(e.packet, Snapshot(p, e.ask), p)] :
             k \in 1 .. registered}
    ELSE {}

\* Replies falling back to the sender of a request that names no replyTo
RepliesFallBackToSender(e, p, registered) ==
    IF ResponderAnswers(e.packet)
    THEN {[to |-> IF Has(e.packet, "replyTo") THEN e.packet.replyTo ELSE e.packet.id,
           ask |-> e.ask, copy |-> k,
           packet |-> ReturnPacket(e.packet, Snapshot(p, e.ask), p)] :
             k \in 1 .. registered}
    ELSE {}

\* the envelopes sendProcReply puts on the channel when the registered
\* handleProcessMessage listeners of process p (registered many) answer e;
\* copy tells the sends of different listeners apart
Replies(e, p, registered) ==
    IF ResponderAnswers(e.packet) /\ Has(e.packet, "replyTo")
    THEN {[to |-> e.packet.replyTo, ask |-> e.ask, copy |-> k,
           packet |-> ReturnPacket(e.packet, Snapshot(p, e.ask), p)] :
             k \in 1 .. registered}
    ELSE {}

\* how many times handleProcessMessage is among the listeners of this process
Responders == Cardinality({i \in DOMAIN listeners : listeners[i] = Responder})

\* the listeners of this process run on packet e.packet and none of them throws
Dispatch(e, answers) ==
    LET packet == e.packet
        counts(c) == Listening(c) /\ ~HandlerIgnores(MetricsGet, packet)
        pushed(c) == IF counts(c) THEN Append(responses[c], packet) ELSE responses[c]
        complete(c) == counts(c) /\ Len(pushed(c)) = procLength[c]
    IN  /\ responses' = [c \in CallIds |-> pushed(c)]
        /\ listeners' = SelectSeq(listeners,
                           LAMBDA l : ~(l.fn = "handler" /\ complete(l.call)))
        /\ timeoutHandle' = [c \in CallIds |->
               IF complete(c) /\ timeoutHandle[c] = "armed" THEN "cleared"
               ELSE timeoutHandle[c]]
        /\ promise' = [c \in CallIds |->
               IF complete(c) THEN Settle(promise[c], "fulfilled", pushed(c), "")
               ELSE promise[c]]
        /\ result' = [c \in CallIds |-> Continue(result[c], promise'[c])]
        /\ channel' = (channel \ {e}) \cup (IF answers THEN Replies(e, pm_id, Responders) ELSE {})
        /\ UNCHANGED <<isClusterMode, pm_id, pc, procList, procLength, thrown,
                       attempts, expiredBefore>>

\* the 'message' event of this process for envelope e: every listener runs
Receive(e) ==
    LET answers == Responder \in Range(listeners) /\ ResponderAnswers(e.packet)
    IN  /\ e.to = pm_id
        /\ IF answers /\ ~Has(e.packet, "replyTo")
           THEN /\ UnhandledRejection(Dispatch(e, answers)) \* sendProcReply throws
                /\ replyThrown' = TRUE
           ELSE Dispatch(e, answers) /\ UNCHANGED <<alive, replyThrown>>

\* the 'message' event of a sibling: only its handleProcessMessage is modelled
ReceiveSibling(e) ==
    /\ e.to # pm_id
    /\ channel' = (channel \ {e}) \cup Replies(e, e.to, Len(Registrations))
    /\ UNCHANGED <<isClusterMode, pm_id, alive, listeners, replyThrown>>
    /\ UNCHANGED callVars

\* the channel delivers a packet in flight
Deliver(e) ==
    /\ alive
    /\ e \in channel
    /\ Receive(e) \/ ReceiveSibling(e)

\* the channel is at most once: a packet may never arrive (send failure,
\* dead or stopped target)
Lose(e) ==
    /\ alive
    /\ e \in channel
    /\ channel' = channel \ {e}
    /\ UNCHANGED <<isClusterMode, pm_id, alive, listeners, replyThrown>>
    /\ UNCHANGED callVars

\* ------------------------------------------------- other users of the channel
MaxForeign == 1     \* answers to foreign requests in flight at a time

\* packets this process can receive that no call of its own caused: the
\* request of a sibling's own getAggregateMetrics, a reply on another topic,
\* and a request that names no replyTo
ForeignPackets ==
    {RequestPacket(q, MetricsGet) : q \in Procs \ {pm_id}}
    \cup {[id |-> q, originalProcId |-> q, topic |-> OtherTopic, data |-> <<>>,
           isReply |-> TRUE] : q \in Procs \ {pm_id}}
    \cup {[id |-> q, originalProcId |-> q, topic |-> MetricsGet, data |-> <<>>] :
             q \in Procs \ {pm_id}}

\* such a packet arrives at this process
Foreign(packet) ==
    /\ alive
    /\ pm_id # Undefined
    /\ Cardinality({e \in channel : e.ask = 0}) < MaxForeign
    /\ Receive([to |-> pm_id, ask |-> 0, packet |-> packet])

\* ------------------------------------------------------------ timeSyncRun
NoTimer == [state |-> "none", at |-> 0, period |-> 0, delay |-> 0, calls |-> 0]

\* SyncDelay taking the time since the last boundary
SyncDelayRemainder(syncTimeInMilliseconds, dateNow) ==
    dateNow % syncTimeInMilliseconds

\* syncTimeInMilliseconds - (Date.now() % syncTimeInMilliseconds)
SyncDelay(syncTimeInMilliseconds, dateNow) ==
    syncTimeInMilliseconds - (dateNow % syncTimeInMilliseconds)

\* timeSyncRun(period, callback): setTimeout(callback, delay)
timeSyncRun(period) ==
    /\ syncTimer.state # "armed"
    /\ syncTimer' = [state |-> "armed", at |-> now, period |-> period,
                     delay |-> SyncDelay(period, now), calls |-> 0]
    /\ UNCHANGED now

\* the timer of timeSyncRun fires, not before its delay has passed: the
\* callback runs and the timer, a setTimeout, is spent
SyncFire ==
    /\ syncTimer.state = "armed"
    /\ now >= syncTimer.at + syncTimer.delay
    /\ syncTimer' = [syncTimer EXCEPT !.state = "fired", !.calls = @ + 1]
    /\ UNCHANGED now

\* the wall clock advances
Tick ==
    /\ now < MaxNow
    /\ now' = now + 1
    /\ UNCHANGED syncTimer

\* ------------------------------------------------------------------- Init
ProtocolInit ==
    /\ isClusterMode \in BOOLEAN
    \* this process has the falsy id 0, a truthy id or none: the truthy ids
    \* differ in name only
    /\ pm_id \in {p \in Procs : p <= 1} \cup {Undefined}
    /\ alive = TRUE
    /\ listeners = IF isClusterMode THEN Registrations ELSE <<>>
    /\ channel = {}
    /\ pc = [c \in CallIds |-> "idle"]
    /\ procList = [c \in CallIds |-> <<>>]
    /\ procLength = [c \in CallIds |-> 0]
    /\ responses = [c \in CallIds |-> <<>>]
    /\ timeoutHandle = [c \in CallIds |-> "unset"]
    /\ promise = [c \in CallIds |-> NoPromise]
    /\ result = [c \in CallIds |-> NoResult]
    /\ thrown = [c \in CallIds |-> ""]
    /\ attempts = [c \in CallIds |-> {}]
    /\ expiredBefore = [c \in CallIds |-> {}]
    /\ replyThrown = FALSE

Init ==
    /\ ProtocolInit
    /\ now = 0
    /\ syncTimer = NoTimer

\* ------------------------------------------------------------------- Next
Next ==
    \/ (\E c \in CallIds : getAggregateMetrics(c))
          /\ UNCHANGED <<replyThrown, syncVars>>
    \/ (\E c \in CallIds, err \in BOOLEAN, list \in Lists : ListReturn(c, err, list))
          /\ UNCHANGED <<replyThrown, syncVars>>
    \/ (\E c \in CallIds : Timeout(c)) /\ UNCHANGED <<replyThrown, syncVars>>
    \/ (\E e \in channel : Deliver(e)) /\ UNCHANGED syncVars
    \/ (\E e \in channel : Lose(e)) /\ UNCHANGED syncVars
    \/ (\E packet \in ForeignPackets : Foreign(packet)) /\ UNCHANGED syncVars

Spec == Init /\ [][Next]_vars

\* the Sync Timer on its own: it shares nothing with the protocol
protocolVars == <<isClusterMode, pm_id, alive, listeners, channel, pc, procList,
                  procLength, responses, timeoutHandle, promise, result, thrown,
                  attempts, expiredBefore, replyThrown>>

SyncNext ==
    \/ (\E period \in 1 .. MaxPeriod : timeSyncRun(period)) /\ UNCHANGED protocolVars
    \/ SyncFire /\ UNCHANGED protocolVars
    \/ Tick /\ UNCHANGED protocolVars

SyncSpec == Init /\ [][SyncNext]_vars

\* a full exchange: no packet is dropped, and the deadline of a call is late
\* enough for every packet of the call in flight to be delivered first
TimeoutAfterDelivery(c) ==
    /\ \A e \in channel : e.ask # c
    /\ Timeout(c)

ReliableNext ==
    \/ (\E c \in CallIds : getAggregateMetrics(c))
          /\ UNCHANGED <<replyThrown, syncVars>>
    \/ (\E c \in CallIds, err \in BOOLEAN, list \in Lists : ListReturn(c, err, list))
          /\ UNCHANGED <<replyThrown, syncVars>>
    \/ (\E c \in CallIds : TimeoutAfterDelivery(c))
          /\ UNCHANGED <<replyThrown, syncVars>>
    \/ (\E e \in channel : Deliver(e)) /\ UNCHANGED syncVars
    \/ (\E packet \in ForeignPackets : Foreign(packet)) /\ UNCHANGED syncVars

ReliableSpec ==
    /\ Init /\ [][ReliableNext]_vars
    /\ \A c \in CallIds :
          WF_vars(TimeoutAfterDelivery(c) /\ UNCHANGED <<replyThrown, syncVars>>)
    /\ \A c \in CallIds :
          WF_vars((\E err \in BOOLEAN, list \in Lists : ListReturn(c, err, list))
                     /\ UNCHANGED <<replyThrown, syncVars>>)
    /\ WF_vars((\E e \in channel : Deliver(e)) /\ UNCHANGED syncVars)

\* timers fire, pm2.list calls back, and the channel either delivers or drops
\* every packet
FairSpec ==
    /\ Spec
    /\ \A c \in CallIds : WF_vars(Timeout(c) /\ UNCHANGED <<replyThrown, syncVars>>)
    /\ \A c \in CallIds :
          WF_vars((\E err \in BOOLEAN, list \in Lists : ListReturn(c, err, list))
                     /\ UNCHANGED <<replyThrown, syncVars>>)
    /\ WF_vars((\E e \in channel : Deliver(e) \/ Lose(e)) /\ UNCHANGED syncVars)

\* ================================================================== claims
\* the call a counted reply was sent in answer to (0: none of this process)
AnswerTo(packet) == IF Len(packet.data) = 2 THEN packet.data[2] ELSE 0

Matching(packet, topic) == IsReply(packet) /\ packet.topic = topic

Registered(c) == pc[c] = "done"

\* C1: when the filtered sibling list is empty (expected count 0), the call
\* resolves at once with the empty sequence, without a message and without
\* the deadline timer.
C1_EmptyListResolvesAtOnce ==
    \A c \in CallIds :
        (Registered(c) /\ procLength[c] = 0)
            => /\ promise[c].state = "fulfilled"
               /\ promise[c].value = <<>>

\* C2: a call issued after an earlier call on the topic timed out never
\* counts a reply that was sent in answer to the expired call, and never
\* resolves with one.
C2_LateReplyDropped ==
    \A c \in CallIds : \A d \in expiredBefore[c] :
        /\ \A i \in DOMAIN responses[c] : AnswerTo(responses[c][i]) # d
        /\ \A i \in DOMAIN promise[c].value : AnswerTo(promise[c].value[i]) # d

\* C3: once a call has ended, by resolving or by Timeout, its 'message'
\* handler is no longer registered.
C3_HandlerDeregisteredAtOutcome ==
    \A c \in CallIds :
        promise[c].state \in {"fulfilled", "rejected"} => ~Listening(c)

\* C4: in cluster mode without pm_id, the promise of the call is rejected with
\* the identity error (it does not stay pending) and nothing is sent.
C4_IdentityErrorRejects ==
    \A c \in CallIds :
        thrown[c] = IdentityError
            => /\ promise[c].state = "rejected" /\ promise[c].reason = IdentityError
               /\ result[c].state = "rejected" /\ result[c].reason = IdentityError
               /\ attempts[c] = {}

\* C5: when pm2.list fails, the promise of the call is rejected with that
\* error, nothing is sent and the query is not repeated.
C5_ListErrorRejects ==
    \A c \in CallIds :
        thrown[c] = ListError
            => /\ promise[c].state = "rejected" /\ promise[c].reason = ListError
               /\ result[c].state = "rejected" /\ result[c].reason = ListError
               /\ attempts[c] = {}

\* C6: every call eventually ends: a pending call is eventually resolved or
\* failed, whatever the directory and the channel do.
C6_EveryCallEnds ==
    \A c \in CallIds :
        (promise[c].state = "pending") ~> (promise[c].state # "pending")

\* C7: when the matching replies that arrived before the deadline are as many
\* as expected, the call is resolved with exactly them in arrival order, its
\* handler is removed and its timer cancelled.
C7_AllRepliesResolve ==
    \A c \in CallIds :
        (Registered(c) /\ timeoutHandle[c] # "fired"
                       /\ Len(responses[c]) = procLength[c])
            => /\ promise[c].state = "fulfilled"
               /\ promise[c].value = responses[c]
               /\ \A i \in DOMAIN promise[c].value :
                     Matching(promise[c].value[i], MetricsGet)
               /\ ~Listening(c)
               /\ timeoutHandle[c] = "cleared"

C9_OnlyMatchingRepliesCounted ==
    \A c \in CallIds :
        /\ \A i \in DOMAIN responses[c] : Matching(responses[c][i], MetricsGet)
        /\ \A i \in DOMAIN promise[c].value : Matching(promise[c].value[i], MetricsGet)

\* the request of call c came back to this process, whose responder answered
\* it, while the handler of c was listening: the handler did not count it
C9_Witness ==
    \E c \in CallIds :
        /\ Listening(c)
        /\ responses[c] = <<>>
        /\ \E e \in channel :
              /\ e.ask = c /\ e.to = pm_id
              /\ IsReply(e.packet) /\ e.packet.id = pm_id

\* C10: broadcastToAll sends to every process of the filtered list, whatever
\* its id, so the count it returns is the number of sends attempted.
C10_SendsToEverySibling ==
    \A c \in CallIds :
        Registered(c)
            => /\ attempts[c] = {o.pm_id : o \in Range(procList[c])}
               /\ procLength[c] = Cardinality(attempts[c])

\* C11: broadcastToAll returns the number of processes of the filtered list
\* (same name, online), and that number is the expected reply count of the
\* request; a send that fails for a sibling neither lowers it nor fails the
\* broadcast.
C11_BroadcastReturnsListLength ==
    \A c \in CallIds :
        Registered(c)
            => /\ procLength[c] = Len(procList[c])
               /\ \A i \in DOMAIN procList[c] : SameNameOnline(procList[c][i])

\* call c sent to a sibling, the packet (or its answer) never arrived, and
\* the request is registered with the full count
C11_Witness ==
    \E c \in CallIds :
        /\ Registered(c) /\ Listening(c)
        /\ attempts[c] # {}
        /\ responses[c] = <<>>
        /\ \A e \in channel : e.ask # c
        /\ procLength[c] = Len(procList[c])

\* C12: outside cluster mode every call returns the local registry, and
\* over any sequence of calls nothing is sent, pm2.list is never queried, no
\* 'message' listener is registered and no timer is started.
C12_SingleProcessTouchesNothing ==
    ~isClusterMode
        => /\ channel = {}
           /\ listeners = <<>>
           /\ \A c \in CallIds :
                 /\ pc[c] \in {"idle", "returned"}
                 /\ timeoutHandle[c] = "unset"
                 /\ attempts[c] = {}
                 /\ promise[c] = NoPromise
                 /\ pc[c] = "returned" => result[c] = LocalRegister

\* every call of the sequence has returned in single-process mode
C12_Witness ==
    /\ ~isClusterMode
    /\ \A c \in CallIds : pc[c] = "returned" /\ result[c].registry = "client.register"

\* C13: the timer timeSyncRun(p) creates at time now has a delay d with
\* 1 <= d <= p and now + d a multiple of p, and its callback runs once, not
\* before the delay and never again.
C13_NextBoundaryOnce ==
    syncTimer.state # "none"
        => /\ syncTimer.delay >= 1
           /\ syncTimer.delay <= syncTimer.period
           /\ (syncTimer.at + syncTimer.delay) % syncTimer.period = 0
           /\ syncTimer.calls <= 1
           /\ syncTimer.state = "fired"
                 => syncTimer.calls = 1 /\ now >= syncTimer.at + syncTimer.delay
           /\ syncTimer.state = "armed" => syncTimer.calls = 0

\* the callback has run for a timer created off a boundary
C13_Witness ==
    /\ syncTimer.state = "fired"
    /\ syncTimer.calls = 1
    /\ syncTimer.at % syncTimer.period # 0

\* the originalProcId of the request a reply on the channel answers
OriginOfRequest(e) == IF e.ask \in CallIds THEN pm_id ELSE e.packet.replyTo

\* C14: a reply carries the originalProcId of the request it answers, the
\* id of the process that originated the broadcast.
C14_OriginIdCarried ==
    /\ \A e \in channel :
          IsReply(e.packet) => e.packet.originalProcId = OriginOfRequest(e)
    /\ \A c \in CallIds : \A i \in DOMAIN responses[c] :
          responses[c][i].originalProcId = pm_id

\* the packets a 'message' event can hand to a Responder in this state
ReceivedRequests ==
    channel \cup {[to |-> pm_id, ask |-> 0, packet |-> p] : p \in ForeignPackets}

\* the step is the 'message' event for e
StepOf(e) ==
    \/ e \in channel /\ e \notin channel' /\ Deliver(e)
    \/ /\ e.ask = 0 /\ e.to = pm_id
       /\ alive' => channel \subseteq channel'
       /\ e.packet \in ForeignPackets /\ Foreign(e.packet)

\* the process e goes to has handleProcessMessage registered
ResponderAt(e) == e.to # pm_id \/ Responders > 0

\* after the step, an answer to e is on its way to process target
AnswerOnWay(e, target) ==
    \E r \in channel' :
        /\ IsReply(r.packet) /\ r.ask = e.ask
        /\ r.packet.topic = e.packet.topic
        /\ r.to = target

\* C15 as stated: every request packet with originalProcId X that a Responder
\* receives on the recognized topic is answered with a reply on the same
\* topic sent to X.
C15_ReplyGoesToOrigin ==
    [][\A e \in ReceivedRequests :
          (ResponderAnswers(e.packet) /\ ResponderAt(e) /\ alive' /\ StepOf(e))
              => AnswerOnWay(e, e.packet.originalProcId)]_vars

\* C15 amended: every request packet that names a replyTo and that a Responder
\* receives on the recognized topic is answered with a reply on the same
\* topic sent to replyTo and to no other process; for the requests of this
\* process that is the originator.
C15_ReplyGoesToReplyTo ==
    [][\A e \in ReceivedRequests :
          (ResponderAnswers(e.packet) /\ ResponderAt(e)
                     /\ Has(e.packet, "replyTo") /\ alive' /\ StepOf(e))
              => /\ AnswerOnWay(e, e.packet.replyTo)
                 /\ \A r \in channel' \ channel :
                       /\ r.to = e.packet.replyTo
                       /\ e.ask \in CallIds => r.to = pm_id]_vars

\* a sibling has answered a request of this process: its reply is on the way
\* to the originator
C15_Witness ==
    \E r \in channel :
        /\ IsReply(r.packet) /\ r.ask \in CallIds
        /\ r.packet.id # pm_id
        /\ r.to = pm_id

\* C16: every reply on the channel has isReply = true, the topic of the
\* request it answers and the id of the process that sent it; every request
\* on the channel has isReply = false and id = replyTo = originalProcId = the
\* broadcasting process.
C16_PacketShapes ==
    \A e \in channel :
        IF IsReply(e.packet)
        THEN /\ e.packet.topic = MetricsGet
             /\ e.packet.data = Snapshot(e.packet.id, e.ask)
        ELSE /\ Has(e.packet, "isReply") /\ e.packet.isReply = FALSE
             /\ e.ask \in CallIds
             /\ e.packet.topic = MetricsGet
             /\ e.packet.id = pm_id
             /\ e.packet.replyTo = pm_id
             /\ e.packet.originalProcId = pm_id

\* a request of this process and the reply of a sibling are on the channel
C16_Witness ==
    /\ \E e \in channel : ~IsReply(e.packet)
    /\ \E r \in channel : IsReply(r.packet) /\ r.packet.id # r.to

\* C17: a request on the recognized topic without replyTo makes sendProcReply
\* throw; nothing is sent, and the pending requests of a process that goes on
\* are as they were.
C17_MissingReplyToSendsNothing ==
    [][\A p \in ForeignPackets :
          (/\ ResponderAnswers(p) /\ ~Has(p, "replyTo") /\ Responders > 0
           /\ alive' => channel \subseteq channel'
           /\ Foreign(p))
              => /\ replyThrown'
                 /\ channel' \subseteq channel
                 /\ alive' => UNCHANGED <<listeners, pc, procLength, responses,
                                          timeoutHandle, promise, result>>]_vars

\* sendProcReply has thrown while a request of this process was pending, and
\* the process goes on
C17_Witness ==
    /\ replyThrown
    /\ alive
    /\ \E c \in CallIds : promise[c].state = "pending" /\ Listening(c)

C19_FullExchangeResolves ==
    \A c \in CallIds : promise[c].reason # TimeoutReason

\* C20: a call resolves with one reply from each process of its sibling
\* list, each sent in answer to its own broadcast.
C20_OwnRepliesOncePerSibling ==
    \A c \in CallIds :
        promise[c].state = "fulfilled"
            => LET value == promise[c].value
               IN  /\ \A i \in DOMAIN value : AnswerTo(value[i]) = c
                   /\ \A i, j \in DOMAIN value : i # j => value[i].id # value[j].id
                   /\ {value[i].id : i \in DOMAIN value}
                         = {o.pm_id : o \in Range(procList[c])}
====
